---------------------------- MODULE Spec2Model ----------------------------
(***************************************************************************)
(* A model of the spatial primitives of the yuki crate: Point, Area and    *)
(* its double-ended iterator, Matrix, and the checked numeric traits.      *)
(*                                                                         *)
(* Integer types are modelled with their two's-complement ranges, scaled   *)
(* from 8/64 bits down to Bits/2*Bits bits:                                *)
(*   "u"     an unsigned type of Bits bits     (u8 scaled)                 *)
(*   "i"     the signed type of Bits bits      (i8 scaled)                 *)
(*   "usize" an unsigned type of 2*Bits bits   (usize scaled)              *)
(* Arithmetic with the plain operators + and - follows the build profile:  *)
(* with overflow checks (debug) an overflow panics, without them           *)
(* (release) the result wraps.  The variable overflowChecks holds the      *)
(* profile; both are explored.                                             *)
(***************************************************************************)
EXTENDS Integers, Sequences, FiniteSets, TLC

VARIABLES
    overflowChecks, \* build profile: TRUE = overflow panics, FALSE = wraps
    area,           \* the Area<T> under test: [ty, position, dimensions]
    index,          \* area::Iter.index
    end,            \* area::Iter.end
    fwd,            \* points returned so far by Iter::next
    bwd,            \* points returned so far by Iter::next_back
    iterRet,        \* the last call on the iterator and what it returned
    query,          \* the point last passed to Area::contains
    containsRet,    \* what that call returned: "true", "false" or "panic"
    points,         \* the collection given to Area::bounding_area: [ty, pts]
    boundRet,       \* what Area::bounding_area returned
    pt,             \* the Point<T> under test: [ty, p]
    ptCall,         \* the last call on pt: [op, delta, family, ret, list,
                    \*                       other, cmp, dist]
    dir,            \* a direction being turned: [family, path, turns]
    mat,            \* the Matrix<T> under test: [built, data, columns]
    matRet,         \* the last call on mat, its arguments and its outcome
    intoRows        \* the IntoRows<T> made from mat: [live, data, columns, out, ret]

iterVars == <<index, end, fwd, bwd, iterRet>>

containsVars == <<query, containsRet>>

boundVars == <<points, boundRet>>

pointVars == <<pt, ptCall, dir>>

matrixVars == <<mat, matRet, intoRows>>

vars == <<overflowChecks, area, index, end, fwd, bwd, iterRet, query, containsRet,
          points, boundRet, pt, ptCall, dir, mat, matRet, intoRows>>

(***************************************************************************)
(* Bounds of the model.                                                    *)
(***************************************************************************)
Bits == 3

MaxDim == 5

MaxPoints == 3

MaxRows == 2

MaxCols == 2

MaxTurns == 8

(***************************************************************************)
(* Integer types.                                                          *)
(***************************************************************************)
Pow2(n) == 2 ^ n

Types == {"u", "i", "usize"}

TypeBits(ty) == IF ty = "usize" THEN 2 * Bits ELSE Bits

Lo(ty) == IF ty = "i" THEN -Pow2(Bits - 1) ELSE 0

Hi(ty) == IF ty = "i" THEN Pow2(Bits - 1) - 1 ELSE Pow2(TypeBits(ty)) - 1

InRange(ty, v) == Lo(ty) <= v /\ v <= Hi(ty)

\* The two's-complement value of v in type ty.
Wrap(ty, v) == ((v - Lo(ty)) % Pow2(TypeBits(ty))) + Lo(ty)

(***************************************************************************)
(* Values: Option<T> and the outcome of an operation that may panic are    *)
(* records of one shape, [kind, v]: kind is "Some", "None" or "panic".     *)
(***************************************************************************)
Pt(x, y) == [x |-> x, y |-> y]

ZeroPt == Pt(0, 0)

Some(v) == [kind |-> "Some", v |-> v]

None == [kind |-> "None", v |-> ZeroPt]

Panic == [kind |-> "panic", v |-> ZeroPt]

\* T's own + : exact when representable, else panic or wrap by build profile.
NumAdd(ty, a, b, checks) ==
    IF InRange(ty, a + b) THEN Some(a + b)
    ELSE IF checks THEN [kind |-> "panic", v |-> 0]
    ELSE Some(Wrap(ty, a + b))

\* T's own - .
NumSub(ty, a, b, checks) ==
    IF InRange(ty, a - b) THEN Some(a - b)
    ELSE IF checks THEN [kind |-> "panic", v |-> 0]
    ELSE Some(Wrap(ty, a - b))

\* Point::cast::<U>: both components try_into U, None if either fails.
PointCast(p, ty) ==
    IF ~InRange(ty, p.x) THEN None
    ELSE IF ~InRange(ty, p.y) THEN None
    ELSE Some(Pt(p.x, p.y))

\* derive_more::Add for Point<T>: componentwise T + T, x first.
PointAdd(ty, p, q, checks) ==
    LET sx == NumAdd(ty, p.x, q.x, checks)
        sy == NumAdd(ty, p.y, q.y, checks)
    IN  IF sx.kind = "panic" \/ sy.kind = "panic" THEN Panic
        ELSE Some(Pt(sx.v, sy.v))

\* derive_more::Sub for Point<T>.
PointSub(ty, p, q, checks) ==
    LET sx == NumSub(ty, p.x, q.x, checks)
        sy == NumSub(ty, p.y, q.y, checks)
    IN  IF sx.kind = "panic" \/ sy.kind = "panic" THEN Panic
        ELSE Some(Pt(sx.v, sy.v))

(***************************************************************************)
(* Area<T> and its iterator.                                               *)
(***************************************************************************)
\* The coordinates an area's position is drawn from: the edges of T's range
\* and the values around zero.
Coords(ty) == {v \in {Lo(ty), -1, 0, 1, Hi(ty) - 1, Hi(ty)} : InRange(ty, v)}

MkArea(ty, p, w, h) == [ty |-> ty, position |-> p, dimensions |-> <<w, h>>]

\* Area::surface_area: width * height in usize (MaxDim * MaxDim fits usize).
SurfaceArea(a) == a.dimensions[1] * a.dimensions[2]

\* IterPointAt with the offset's axes exchanged (column-major).
IterPointAt_ColumnMajor(a, k, checks) ==
    LET width == a.dimensions[1]
        offset == PointCast(Pt(k \div width, k % width), a.ty)
    IN  IF offset.kind = "None" THEN Panic
        ELSE IF InRange(a.ty, a.position.x + offset.v.x) /\ InRange(a.ty, a.position.y + offset.v.y)
             THEN Some(Pt(a.position.x + offset.v.x, a.position.y + offset.v.y))
             ELSE IF checks THEN Panic
             ELSE Some(Pt(Wrap(a.ty, a.position.x + offset.v.x), Wrap(a.ty, a.position.y + offset.v.y)))

\* The offset of linear index k in the area, and what Iter::next and
\* Iter::next_back do with it: cast to T (unwrap), then position + offset.
IterPointAt(a, k, checks) ==
    LET width == a.dimensions[1]
        offset == PointCast(Pt(k % width, k \div width), a.ty)
    IN  IF offset.kind = "None" THEN Panic
        ELSE PointAdd(a.ty, a.position, offset.v, checks)

\* Iter::next as a function of the iterator: the value returned and the new index.
IterNextStep(a, idx, e, checks) ==
    IF idx >= e THEN [ret |-> None, index |-> idx]
    ELSE LET r == IterPointAt(a, idx, checks)
         IN  [ret |-> r, index |-> IF r.kind = "panic" THEN idx ELSE idx + 1]

\* IterNextBackStep that stops only at the start of the area, not at index.
IterNextBackStep_IgnoresIndex(a, idx, e, checks) ==
    IF e <= 0 THEN [ret |-> None, end |-> e]
    ELSE LET width == a.dimensions[1]
             offset == PointCast(Pt((e - 1) % width, (e - 1) \div width), a.ty)
             r == IF offset.kind = "None" THEN Panic
                  ELSE PointAdd(a.ty, a.position, offset.v, checks)
         IN  [ret |-> r, end |-> e - 1]

\* Iter::next_back: the value returned and the new end.
IterNextBackStep(a, idx, e, checks) ==
    IF e <= idx THEN [ret |-> None, end |-> e]
    ELSE [ret |-> IterPointAt(a, e - 1, checks), end |-> e - 1]

\* Iter::size_hint: size = surface_area() - index, returned as (size, Some(size)).
\* The subtraction cannot underflow: index never passes end, and end starts
\* at surface_area().
SizeHint(a, idx) ==
    LET size == SurfaceArea(a) - idx
    IN  [lower |-> size, upper |-> size]

\* ExactSizeIterator::len (the default method): the lower bound of size_hint.
IterLen(a, idx) == SizeHint(a, idx).lower

\* No call was made on the iterator yet.
NoCall == [op |-> "none", ret |-> [kind |-> "unset", v |-> ZeroPt]]

\* Area::new: any position of T, any dimensions (here up to MaxDim).
Areas ==
    UNION {{MkArea(ty, Pt(px, py), w, h) :
               px \in Coords(ty), py \in Coords(ty), w \in 0..MaxDim, h \in 0..MaxDim} :
           ty \in Types}

\* IntoIterator for Area<T> / &Area<T>: Iter { area, index: 0, end: surface_area() }.
IntoIter(a) ==
    /\ area = a
    /\ index = 0
    /\ end = SurfaceArea(a)
    /\ fwd = <<>>
    /\ bwd = <<>>
    /\ iterRet = NoCall

IterLive == iterRet.ret.kind # "panic"

\* A call of Iter::next.
Next_ ==
    /\ IterLive
    /\ LET s == IterNextStep(area, index, end, overflowChecks)
       IN  /\ index' = s.index
           /\ fwd' = IF s.ret.kind = "Some" THEN Append(fwd, s.ret.v) ELSE fwd
           /\ iterRet' = [op |-> "next", ret |-> s.ret]
    /\ UNCHANGED <<overflowChecks, area, end, bwd, containsVars, boundVars, pointVars, matrixVars>>

\* A call of Iter::next_back.
NextBack ==
    /\ IterLive
    /\ LET s == IterNextBackStep(area, index, end, overflowChecks)
       IN  /\ end' = s.end
           /\ bwd' = IF s.ret.kind = "Some" THEN Append(bwd, s.ret.v) ELSE bwd
           /\ iterRet' = [op |-> "next_back", ret |-> s.ret]
    /\ UNCHANGED <<overflowChecks, area, index, fwd, containsVars, boundVars, pointVars, matrixVars>>

(***************************************************************************)
(* Area::contains.                                                         *)
(***************************************************************************)
\* Area::contains: bottom_right = position + dimensions cast to T (unwrap),
\* then the query point cast to T (false if it fails), then the comparison.
AreaContains(a, q, checks) ==
    LET dims == PointCast(Pt(a.dimensions[1], a.dimensions[2]), a.ty)
    IN  IF dims.kind = "None" THEN "panic"
        ELSE LET bottom_right == PointAdd(a.ty, a.position, dims.v, checks)
                 point == PointCast(q, a.ty)
             IN  IF bottom_right.kind = "panic" THEN "panic"
                 ELSE IF point.kind = "None" THEN "false"
                 ELSE IF /\ point.v.x >= a.position.x
                         /\ point.v.y >= a.position.y
                         /\ point.v.x < bottom_right.v.x
                         /\ point.v.y < bottom_right.v.y
                      THEN "true" ELSE "false"

\* The coordinates of the query points: those of the positions, a little
\* beyond them, and the values just outside T's range.
QueryCoords(ty) == Coords(ty) \cup {Lo(ty) - 1, 2, Hi(ty) - 2, Hi(ty) + 1}

\* A call a.contains(q).
Contains ==
    /\ containsRet = "unset"
    /\ \E qx \in QueryCoords(area.ty), qy \in QueryCoords(area.ty) :
          /\ query' = Pt(qx, qy)
          /\ containsRet' = AreaContains(area, Pt(qx, qy), overflowChecks)
    /\ UNCHANGED <<overflowChecks, area, iterVars, boundVars, pointVars, matrixVars>>

\* a.iter() run to its end: the points yielded, and "None" or "panic".
RECURSIVE IterCollect(_, _, _, _, _)
IterCollect(a, idx, e, checks, acc) ==
    LET s == IterNextStep(a, idx, e, checks)
    IN  IF s.ret.kind = "Some"
        THEN IterCollect(a, s.index, e, checks, Append(acc, s.ret.v))
        ELSE [ret |-> s.ret.kind, yielded |-> acc]

(***************************************************************************)
(* Area::bounding_area.                                                    *)
(***************************************************************************)
Min(a, b) == IF a <= b THEN a ELSE b

Max(a, b) == IF a >= b THEN a ELSE b

\* The fold of bounding_area: None, or the (low, high) corners so far.
RECURSIVE BoundsFold(_, _, _)
BoundsFold(pts, i, bounds) ==
    IF i > Len(pts) THEN bounds
    ELSE LET point == pts[i]
         IN  BoundsFold(pts, i + 1,
                IF bounds.kind = "None"
                THEN [kind |-> "Some", low |-> point, high |-> point]
                ELSE [kind |-> "Some",
                      low |-> Pt(Min(bounds.low.x, point.x), Min(bounds.low.y, point.y)),
                      high |-> Pt(Max(bounds.high.x, point.x), Max(bounds.high.y, point.y))])

NoBounds == [kind |-> "None", low |-> ZeroPt, high |-> ZeroPt]

BoundPanic == [kind |-> "panic", area |-> MkArea("usize", ZeroPt, 0, 0)]

\* Area::bounding_area: the fold, then (bottom_right - top_left) in T, cast
\* to usize (unwrap), plus Point::one() in usize.
BoundingArea(ty, pts, checks) ==
    LET bounds == BoundsFold(pts, 1, NoBounds)
    IN  IF bounds.kind = "None"
        THEN [kind |-> "Some", area |-> MkArea(ty, ZeroPt, 0, 0)]
        ELSE LET diff == PointSub(ty, bounds.high, bounds.low, checks)
             IN  IF diff.kind = "panic" THEN BoundPanic
                 ELSE LET cast == PointCast(diff.v, "usize")
                      IN  IF cast.kind = "None" THEN BoundPanic
                          ELSE LET dimensions == PointAdd("usize", cast.v, Pt(1, 1), checks)
                               IN  IF dimensions.kind = "panic" THEN BoundPanic
                                   ELSE [kind |-> "Some",
                                         area |-> MkArea(ty, bounds.low,
                                                         dimensions.v.x, dimensions.v.y)]

\* The coordinates the points of a collection are drawn from.
BoundCoords(ty) == {v \in {Lo(ty), -1, 0, 2, Hi(ty)} : InRange(ty, v)}

\* The collections of at most MaxPoints points of type ty.
PointSeqs(ty) ==
    UNION {[1..n -> {Pt(x, y) : x \in BoundCoords(ty), y \in BoundCoords(ty)}] :
           n \in 0..MaxPoints}

NoBoundCall == [kind |-> "unset", area |-> MkArea("usize", ZeroPt, 0, 0)]

\* A call Area::bounding_area(points).
CallBoundingArea ==
    /\ boundRet.kind = "unset"
    /\ boundRet' = BoundingArea(points.ty, points.pts, overflowChecks)
    /\ UNCHANGED <<overflowChecks, area, iterVars, containsVars, points, pointVars, matrixVars>>

(***************************************************************************)
(* The checked numeric traits (num.rs) and Point::add_signed, neighbours.  *)
(***************************************************************************)
\* T::Signed: the signed type of T's width, as a range.
SignedLo(ty) == -Pow2(TypeBits(ty) - 1)

SignedHi(ty) == Pow2(TypeBits(ty) - 1) - 1

\* Unsigned overflowing_add: the sum modulo 2^bits and the carry out.
OverflowingAddU(ty, a, b) ==
    [v |-> (a + b) % Pow2(TypeBits(ty)), overflowed |-> (a + b) >= Pow2(TypeBits(ty))]

\* `rhs as Self`: the signed rhs reinterpreted as the unsigned type.
AsUnsigned(ty, rhs) == rhs % Pow2(TypeBits(ty))

\* Signed overflowing_add: the wrapped sum, and overflow when both operands
\* have the sign the result does not have.
OverflowingAddI(ty, a, b) ==
    LET r == Wrap(ty, a + b)
    IN  [v |-> r, overflowed |-> ((a >= 0) = (b >= 0)) /\ ((r >= 0) # (a >= 0))]

\* The unsigned impl with the sign of rhs left out of the overflow flag.
CheckedAddSignedU_NoSignFix(ty, x, rhs) ==
    LET r == OverflowingAddU(ty, x, AsUnsigned(ty, rhs))
    IN  IF r.overflowed THEN [kind |-> "None", v |-> 0] ELSE Some(r.v)

\* CheckedAddSigned for $unsigned: <$unsigned>::checked_add_signed(self, rhs),
\* that is overflowing_add(rhs as Self) with the flag flipped for rhs < 0.
CheckedAddSignedU(ty, x, rhs) ==
    LET r == OverflowingAddU(ty, x, AsUnsigned(ty, rhs))
        overflowed == r.overflowed # (rhs < 0)
    IN  IF overflowed THEN [kind |-> "None", v |-> 0] ELSE Some(r.v)

\* CheckedAddSigned for $signed: self.checked_add(rhs).
CheckedAddSignedI(ty, x, rhs) ==
    LET r == OverflowingAddI(ty, x, rhs)
    IN  IF r.overflowed THEN [kind |-> "None", v |-> 0] ELSE Some(r.v)

CheckedAddSigned(ty, x, rhs) ==
    IF ty = "i" THEN CheckedAddSignedI(ty, x, rhs) ELSE CheckedAddSignedU(ty, x, rhs)

\* Point::add_signed: x first, then y; None as soon as one fails.
AddSigned(ty, p, d) ==
    LET x == CheckedAddSigned(ty, p.x, d.x)
    IN  IF x.kind = "None" THEN None
        ELSE LET y == CheckedAddSigned(ty, p.y, d.y)
             IN  IF y.kind = "None" THEN None
                 ELSE Some(Pt(x.v, y.v))

\* Compass values carry their family.
Card(d) == [family |-> "Cardinal", dir |-> d]

Ord(d) == [family |-> "Ordinal", dir |-> d]

\* Cardinal::all with South and North exchanged.
CardinalAll_SouthFirst == <<"South", "East", "North", "West">>

\* Directions::all for Cardinal.
CardinalAll == <<"North", "East", "South", "West">>

\* Directions::all for Ordinal.
OrdinalAll == <<"NorthEast", "SouthEast", "SouthWest", "NorthWest">>

\* Directions::all for Compass.
CompassAll ==
    <<Card("North"), Ord("NorthEast"), Card("East"), Ord("SouthEast"),
      Card("South"), Ord("SouthWest"), Card("West"), Ord("NorthWest")>>

\* Directions::vector for Cardinal.
CardinalVector(d) ==
    CASE d = "North" -> Pt(0, -1)
      [] d = "East" -> Pt(1, 0)
      [] d = "South" -> Pt(0, 1)
      [] d = "West" -> Pt(-1, 0)

\* Directions::vector for Ordinal.
OrdinalVector(d) ==
    CASE d = "NorthEast" -> Pt(1, -1)
      [] d = "SouthEast" -> Pt(1, 1)
      [] d = "SouthWest" -> Pt(-1, 1)
      [] d = "NorthWest" -> Pt(-1, -1)

\* Directions::vector for Compass.
CompassVector(d) ==
    IF d.family = "Cardinal" THEN CardinalVector(d.dir) ELSE OrdinalVector(d.dir)

Families == {"Cardinal", "Ordinal", "Compass"}

\* D::all() as the sequence of D's vectors, in D::all()'s order.
AllVectors(family) ==
    CASE family = "Cardinal" -> [i \in 1..Len(CardinalAll) |-> CardinalVector(CardinalAll[i])]
      [] family = "Ordinal" -> [i \in 1..Len(OrdinalAll) |-> OrdinalVector(OrdinalAll[i])]
      [] family = "Compass" -> [i \in 1..Len(CompassAll) |-> CompassVector(CompassAll[i])]

\* filter_map over the vectors: the Some results of add_signed, in order.
RECURSIVE FilterMapAddSigned(_, _, _, _)
FilterMapAddSigned(ty, p, vectors, i) ==
    IF i > Len(vectors) THEN <<>>
    ELSE LET r == AddSigned(ty, p, vectors[i])
         IN  IF r.kind = "Some"
             THEN <<r.v>> \o FilterMapAddSigned(ty, p, vectors, i + 1)
             ELSE FilterMapAddSigned(ty, p, vectors, i + 1)

\* Point::neighbours::<D>, collected.
Neighbours(ty, p, family) == FilterMapAddSigned(ty, p, AllVectors(family), 1)

\* The coordinates of the points: all of a narrow type, the edges of usize.
PointCoords(ty) == IF ty = "usize" THEN Coords(ty) ELSE Lo(ty)..Hi(ty)

\* The components of a delta of type T::Signed.
DeltaCoords(ty) ==
    IF ty = "usize"
    THEN {SignedLo(ty), SignedLo(ty) + 1, -1, 0, 1, SignedHi(ty) - 1, SignedHi(ty)}
    ELSE SignedLo(ty)..SignedHi(ty)

\* T::cmp for the integer types.
NumCmp(a, b) == IF a < b THEN "Less" ELSE IF a = b THEN "Equal" ELSE "Greater"

\* Ordering::then.
Then(first, second) == IF first = "Equal" THEN second ELSE first

\* Point's cmp comparing x first and y second.
PointCmp_XFirst(p, q) == Then(NumCmp(p.x, q.x), NumCmp(p.y, q.y))

\* Ord for Point<T>: self.y.cmp(&other.y).then(self.x.cmp(&other.x)).
PointCmp(p, q) == Then(NumCmp(p.y, q.y), NumCmp(p.x, q.x))

\* PartialOrd for Point<T>: Some(self.cmp(other)).
PointPartialCmp(p, q) == [kind |-> "Some", v |-> PointCmp(p, q)]

\* PartialOrd::lt (the default method): partial_cmp is Some(Less).
PointLt(p, q) == PointPartialCmp(p, q) = [kind |-> "Some", v |-> "Less"]

\* The derived PartialEq of Point<T>: field by field.
PointEq(p, q) == p.x = q.x /\ p.y = q.y

\* std::cmp::minmax: [v2, v1] if v2 < v1, else [v1, v2].
MinMax(v1, v2) == IF v2 < v1 THEN <<v2, v1>> ELSE <<v1, v2>>

\* Point::manhattan_distance: max_x - min_x + max_y - min_y, evaluated from
\* the left in T: ((max_x - min_x) + max_y) - min_y.
ManhattanDistance(ty, p, q, checks) ==
    LET mx == MinMax(p.x, q.x)
        my == MinMax(p.y, q.y)
        dx == NumSub(ty, mx[2], mx[1], checks)
    IN  IF dx.kind = "panic" THEN dx
        ELSE LET sum == NumAdd(ty, dx.v, my[2], checks)
             IN  IF sum.kind = "panic" THEN sum
                 ELSE NumSub(ty, sum.v, my[1], checks)

NoCmp == [ord |-> "none", partial |-> [kind |-> "None", v |-> "none"], lt |-> FALSE, eq |-> FALSE]

NoDist == [kind |-> "unset", v |-> 0]

NoPointCall ==
    [op |-> "none", delta |-> ZeroPt, family |-> "none", ret |-> None, list |-> <<>>,
     other |-> ZeroPt, cmp |-> NoCmp, dist |-> NoDist]

\* A call pt.add_signed(delta).
CallAddSigned ==
    /\ ptCall.op = "none"
    /\ \E dx \in DeltaCoords(pt.ty), dy \in DeltaCoords(pt.ty) :
          ptCall' = [op |-> "add_signed", delta |-> Pt(dx, dy), family |-> "none",
                     ret |-> AddSigned(pt.ty, pt.p, Pt(dx, dy)), list |-> <<>>,
                     other |-> ZeroPt, cmp |-> NoCmp, dist |-> NoDist]
    /\ UNCHANGED <<overflowChecks, area, iterVars, containsVars, boundVars, pt, dir, matrixVars>>

\* A call pt.neighbours::<D>(), collected.
CallNeighbours ==
    /\ ptCall.op = "none"
    /\ \E family \in Families :
          ptCall' = [op |-> "neighbours", delta |-> ZeroPt, family |-> family,
                     ret |-> None, list |-> Neighbours(pt.ty, pt.p, family),
                     other |-> ZeroPt, cmp |-> NoCmp, dist |-> NoDist]
    /\ UNCHANGED <<overflowChecks, area, iterVars, containsVars, boundVars, pt, dir, matrixVars>>

\* A comparison of pt with another point: cmp, partial_cmp, < and ==.
CallCmp ==
    /\ ptCall.op = "none"
    /\ \E x \in PointCoords(pt.ty), y \in PointCoords(pt.ty) :
          ptCall' = [NoPointCall EXCEPT
                       !.op = "cmp",
                       !.other = Pt(x, y),
                       !.cmp = [ord |-> PointCmp(pt.p, Pt(x, y)),
                                partial |-> PointPartialCmp(pt.p, Pt(x, y)),
                                lt |-> PointLt(pt.p, Pt(x, y)),
                                eq |-> PointEq(pt.p, Pt(x, y))]]
    /\ UNCHANGED <<overflowChecks, area, iterVars, containsVars, boundVars, pt, dir, matrixVars>>

\* A call pt.manhattan_distance(other).
CallManhattanDistance ==
    /\ ptCall.op = "none"
    /\ \E x \in PointCoords(pt.ty), y \in PointCoords(pt.ty) :
          ptCall' = [NoPointCall EXCEPT
                       !.op = "manhattan_distance",
                       !.other = Pt(x, y),
                       !.dist = ManhattanDistance(pt.ty, pt.p, Pt(x, y), overflowChecks)]
    /\ UNCHANGED <<overflowChecks, area, iterVars, containsVars, boundVars, pt, dir, matrixVars>>

(***************************************************************************)
(* Turning directions.                                                     *)
(***************************************************************************)
Rotations == {"Clockwise", "CounterClockwise"}

\* Cardinal::turn that turns clockwise whatever the rotation.
CardinalTurn_AlwaysClockwise(d, direction) ==
    CASE d = "North" -> "East"
      [] d = "East" -> "South"
      [] d = "South" -> "West"
      [] d = "West" -> "North"

\* Cardinal::turn: the match on (direction, self), arm by arm.
CardinalTurn(d, direction) ==
    CASE (direction = "Clockwise" /\ d = "North")
            \/ (direction = "CounterClockwise" /\ d = "South") -> "East"
      [] (direction = "Clockwise" /\ d = "East")
            \/ (direction = "CounterClockwise" /\ d = "West") -> "South"
      [] (direction = "Clockwise" /\ d = "South")
            \/ (direction = "CounterClockwise" /\ d = "North") -> "West"
      [] (direction = "Clockwise" /\ d = "West")
            \/ (direction = "CounterClockwise" /\ d = "East") -> "North"

\* Ordinal::turn.
OrdinalTurn(d, direction) ==
    CASE (direction = "Clockwise" /\ d = "NorthEast")
            \/ (direction = "CounterClockwise" /\ d = "SouthWest") -> "SouthEast"
      [] (direction = "Clockwise" /\ d = "SouthEast")
            \/ (direction = "CounterClockwise" /\ d = "NorthWest") -> "SouthWest"
      [] (direction = "Clockwise" /\ d = "SouthWest")
            \/ (direction = "CounterClockwise" /\ d = "NorthEast") -> "NorthWest"
      [] (direction = "Clockwise" /\ d = "NorthWest")
            \/ (direction = "CounterClockwise" /\ d = "SouthEast") -> "NorthEast"

\* Compass::turn.
CompassTurn(d, direction) ==
    LET CW == direction = "Clockwise"
        CCW == direction = "CounterClockwise"
    IN  CASE (CW /\ d = Card("North")) \/ (CCW /\ d = Card("East")) -> Ord("NorthEast")
          [] (CW /\ d = Card("East")) \/ (CCW /\ d = Card("South")) -> Ord("SouthEast")
          [] (CW /\ d = Card("South")) \/ (CCW /\ d = Card("West")) -> Ord("SouthWest")
          [] (CW /\ d = Card("West")) \/ (CCW /\ d = Card("North")) -> Ord("NorthWest")
          [] (CW /\ d = Ord("NorthEast")) \/ (CCW /\ d = Ord("SouthEast")) -> Card("East")
          [] (CW /\ d = Ord("SouthEast")) \/ (CCW /\ d = Ord("SouthWest")) -> Card("South")
          [] (CW /\ d = Ord("SouthWest")) \/ (CCW /\ d = Ord("NorthWest")) -> Card("West")
          [] (CW /\ d = Ord("NorthWest")) \/ (CCW /\ d = Ord("NorthEast")) -> Card("North")

\* turn of the direction type named by family.
TurnOf(family, d, direction) ==
    CASE family = "Cardinal" -> CardinalTurn(d, direction)
      [] family = "Ordinal" -> OrdinalTurn(d, direction)
      [] family = "Compass" -> CompassTurn(d, direction)

\* The values of a direction type.
DirectionsOf(family) ==
    CASE family = "Cardinal" -> {CardinalAll[i] : i \in 1..Len(CardinalAll)}
      [] family = "Ordinal" -> {OrdinalAll[i] : i \in 1..Len(OrdinalAll)}
      [] family = "Compass" -> {CompassAll[i] : i \in 1..Len(CompassAll)}

\* No direction is being turned.
NoDirection == [family |-> "none", path |-> <<>>, turns |-> <<>>]

\* d = d.turn(direction): path holds the values d had, turns the rotations.
Turn ==
    /\ dir.family \in Families
    /\ Len(dir.turns) < MaxTurns
    /\ \E direction \in Rotations :
          dir' = [dir EXCEPT
                    !.path = Append(@, TurnOf(dir.family, dir.path[Len(dir.path)], direction)),
                    !.turns = Append(@, direction)]
    /\ UNCHANGED <<overflowChecks, area, iterVars, containsVars, boundVars, pt, ptCall, matrixVars>>

(***************************************************************************)
(* Matrix<T>.                                                              *)
(***************************************************************************)
\* The elements: two values that can be told apart.
Vals == {"a", "b"}

MkMatrix(data, columns) == [built |-> TRUE, data |-> data, columns |-> columns]

\* No Matrix value exists (before construction, or after it failed).
NoMatrix == [built |-> FALSE, data |-> <<>>, columns |-> 0]

\* try_from_iter without the comparison of row lengths.
RECURSIVE TryFromIterLoop_NoLengthCheck(_, _, _, _)
TryFromIterLoop_NoLengthCheck(rows, i, columns, data) ==
    IF i > Len(rows)
    THEN [ret |-> "Ok", m |-> MkMatrix(data, IF columns.some THEN columns.v ELSE 0)]
    ELSE TryFromIterLoop_NoLengthCheck(rows, i + 1,
             IF columns.some THEN columns ELSE [some |-> TRUE, v |-> Len(rows[i])],
             data \o rows[i])

\* try_from_iter that rejects only a row longer than the first.
RECURSIVE TryFromIterLoop_OnlyLongerRejected(_, _, _, _)
TryFromIterLoop_OnlyLongerRejected(rows, i, columns, data) ==
    IF i > Len(rows)
    THEN [ret |-> "Ok", m |-> MkMatrix(data, IF columns.some THEN columns.v ELSE 0)]
    ELSE LET length == Len(rows[i])
         IN  IF columns.some /\ columns.v < length
             THEN [ret |-> "VariableRows", m |-> NoMatrix]
             ELSE TryFromIterLoop_OnlyLongerRejected(rows, i + 1,
                      IF columns.some THEN columns ELSE [some |-> TRUE, v |-> length],
                      data \o rows[i])

\* The map / flatten_ok / collect of try_from_iter from row i on: columns is
\* the Option<usize> captured by the closure, data the elements collected.
RECURSIVE TryFromIterLoop(_, _, _, _)
TryFromIterLoop(rows, i, columns, data) ==
    IF i > Len(rows)
    THEN [ret |-> "Ok", m |-> MkMatrix(data, IF columns.some THEN columns.v ELSE 0)]
    ELSE LET length == Len(rows[i])
         IN  IF columns.some /\ columns.v # length
             THEN [ret |-> "VariableRows", m |-> NoMatrix]
             ELSE TryFromIterLoop(rows, i + 1,
                      IF columns.some THEN columns ELSE [some |-> TRUE, v |-> length],
                      data \o rows[i])

\* Matrix::try_from_iter (and try_collecting, which calls it).
TryFromIter(rows) == TryFromIterLoop(rows, 1, [some |-> FALSE, v |-> 0], <<>>)

\* Matrix::cols.
Cols(m) == m.columns

\* Matrix::rows.
Rows(m) == IF m.columns = 0 THEN 0 ELSE Len(m.data) \div m.columns

\* Index<Point<usize>>::index: &self.data[y * self.columns + x].
Index(m, p) ==
    LET i == p.y * m.columns + p.x
    IN  IF i < Len(m.data) THEN [kind |-> "Some", v |-> m.data[i + 1]]
        ELSE [kind |-> "panic", v |-> "a"]

\* IndexMut<Point<usize>>::index_mut: (row, col) = index.into(), that is
\* (x, y); the cell &mut self.data[row * self.columns + col], as its position.
IndexMutCell(m, p) ==
    LET row == p.x
        col == p.y
        i == row * m.columns + col
    IN  IF i < Len(m.data) THEN [kind |-> "Some", v |-> i + 1]
        ELSE [kind |-> "panic", v |-> 0]

\* Matrix::get with the bounds of the two axes exchanged.
Get_AxesExchanged(m, p) ==
    IF p.x < Rows(m) /\ p.y < Cols(m)
    THEN Index(m, p)
    ELSE [kind |-> "None", v |-> "a"]

\* Matrix::get.
Get(m, p) ==
    IF p.x < Cols(m) /\ p.y < Rows(m)
    THEN Index(m, p)
    ELSE [kind |-> "None", v |-> "a"]

\* data.iter().skip(col).step_by(columns): the positions in data visited.
ColPositions(m, col) ==
    LET left == IF Len(m.data) > col THEN Len(m.data) - col ELSE 0
        n == (left + m.columns - 1) \div m.columns
    IN  [k \in 1..n |-> col + (k - 1) * m.columns + 1]

\* Matrix::iter_cols, flattened: the elements column by column from col on.
RECURSIVE FlattenCols(_, _)
FlattenCols(m, col) ==
    IF col >= m.columns THEN <<>>
    ELSE [k \in 1..Len(ColPositions(m, col)) |-> m.data[ColPositions(m, col)[k]]]
         \o FlattenCols(m, col + 1)

\* Matrix::transpose that keeps the number of columns.
Transpose_KeepsColumns(m) == MkMatrix(FlattenCols(m, 0), m.columns)

\* Matrix::transpose.
Transpose(m) == MkMatrix(FlattenCols(m, 0), Rows(m))

\* The mapping functions given to Matrix::map.
Mappers == {"flip", "checker"}

Apply(f, p, v) ==
    CASE f = "flip" -> IF v = "a" THEN "b" ELSE "a"
      [] f = "checker" -> IF (p.x + p.y) % 2 = 0 THEN v ELSE "b"

\* Matrix::iter_rows: data.chunks_exact(columns), which panics on a chunk
\* size of 0; else the whole chunks of data, in order.
IterRows(m) ==
    IF m.columns = 0 THEN [ret |-> "panic", rows |-> <<>>]
    ELSE [ret |-> "Ok",
          rows |-> [k \in 1..(Len(m.data) \div m.columns) |->
                      SubSeq(m.data, (k - 1) * m.columns + 1, k * m.columns)]]

\* enumerate2d with the row number as x and the column number as y.
Enumerate2D_RowAsX(m) ==
    LET whole == (Len(m.data) \div m.columns) * m.columns
    IN  [k \in 1..whole |->
            [p |-> Pt((k - 1) \div m.columns, (k - 1) % m.columns), v |-> m.data[k]]]

\* data.chunks_exact(columns).enumerate2d(): the (Point, element) pairs, row
\* by row; the elements after the last whole chunk are left out.
Enumerate2D(m) ==
    LET whole == (Len(m.data) \div m.columns) * m.columns
    IN  [k \in 1..whole |->
            [p |-> Pt((k - 1) % m.columns, (k - 1) \div m.columns), v |-> m.data[k]]]

\* Matrix::map; chunks_exact panics on a chunk size of 0.
Map(m, f) ==
    IF m.columns = 0 THEN [ret |-> "panic", m |-> m, calls |-> <<>>]
    ELSE LET cells == Enumerate2D(m)
         IN  [ret |-> "Ok",
              calls |-> cells,
              m |-> MkMatrix([k \in 1..Len(cells) |-> Apply(f, cells[k].p, cells[k].v)],
                             m.columns)]

\* The rows a matrix is built from: at most MaxRows rows of at most MaxCols
\* elements each, of any lengths.
RowsOfVals == UNION {[1..n -> Vals] : n \in 0..MaxCols}

RowSeqs == UNION {[1..n -> RowsOfVals] : n \in 0..MaxRows}

\* The points a matrix is indexed with: all those of the largest matrix, and
\* one step beyond.
IndexPoints == {Pt(x, y) : x \in 0..(MaxCols + 1), y \in 0..(MaxCols + 1)}

MatCall(op, ret, rows, p, v, before) ==
    [op |-> op, ret |-> ret, rows |-> rows, p |-> p, v |-> v, before |-> before,
     log |-> <<>>]

NoMatCall == MatCall("none", "unset", <<>>, ZeroPt, "a", NoMatrix)

MatLive == mat.built /\ matRet.ret # "panic"

\* A call Matrix::try_from_iter(rows).
CallTryFromIter ==
    /\ matRet.op = "none"
    /\ \E rows \in RowSeqs :
          /\ mat' = TryFromIter(rows).m
          /\ matRet' = MatCall("try_from_iter", TryFromIter(rows).ret, rows, ZeroPt, "a", NoMatrix)
    /\ UNCHANGED <<overflowChecks, area, iterVars, containsVars, boundVars, pointVars, intoRows>>

\* mat = mat.transpose().
CallTranspose ==
    /\ MatLive
    /\ mat' = Transpose(mat)
    /\ matRet' = MatCall("transpose", "Ok", <<>>, ZeroPt, "a", mat)
    /\ UNCHANGED <<overflowChecks, area, iterVars, containsVars, boundVars, pointVars, intoRows>>

\* mat = mat.map(f).
CallMap ==
    /\ MatLive
    /\ \E f \in Mappers :
          /\ mat' = Map(mat, f).m
          /\ matRet' = [MatCall("map", Map(mat, f).ret, <<>>, ZeroPt, f, mat)
                          EXCEPT !.log = Map(mat, f).calls]
    /\ UNCHANGED <<overflowChecks, area, iterVars, containsVars, boundVars, pointVars, intoRows>>

\* A write of v through the k-th reference yielded by mat.iter_mut().
CallIterMut ==
    /\ MatLive
    /\ \E k \in 1..Len(mat.data), v \in Vals :
          /\ mat' = [mat EXCEPT !.data[k] = v]
          /\ matRet' = MatCall("iter_mut", "Ok", <<>>, ZeroPt, v, mat)
    /\ UNCHANGED <<overflowChecks, area, iterVars, containsVars, boundVars, pointVars, intoRows>>

\* mat[p] = v, through index_mut.
CallIndexMut ==
    /\ MatLive
    /\ \E p \in IndexPoints, v \in Vals :
          LET cell == IndexMutCell(mat, p)
          IN  /\ mat' = IF cell.kind = "panic" THEN mat
                        ELSE [mat EXCEPT !.data[cell.v] = v]
              /\ matRet' = MatCall("index_mut", IF cell.kind = "panic" THEN "panic" ELSE "Ok",
                                   <<>>, p, v, mat)
    /\ UNCHANGED <<overflowChecks, area, iterVars, containsVars, boundVars, pointVars, intoRows>>

\* A read mat.get(p).
CallGet ==
    /\ MatLive
    /\ \E p \in IndexPoints :
          matRet' = MatCall("get", Get(mat, p).kind, <<>>, p, Get(mat, p).v, mat)
    /\ UNCHANGED <<overflowChecks, area, iterVars, containsVars, boundVars, pointVars, mat, intoRows>>

\* A read mat[p], through index.
CallIndex ==
    /\ MatLive
    /\ \E p \in IndexPoints :
          matRet' = MatCall("index", Index(mat, p).kind, <<>>, p, Index(mat, p).v, mat)
    /\ UNCHANGED <<overflowChecks, area, iterVars, containsVars, boundVars, pointVars, mat, intoRows>>

\* mat.iter_rows(), collected into log.
CallIterRows ==
    /\ MatLive
    /\ matRet' = [MatCall("iter_rows", IterRows(mat).ret, <<>>, ZeroPt, "a", mat)
                    EXCEPT !.log = IterRows(mat).rows]
    /\ UNCHANGED <<overflowChecks, area, iterVars, containsVars, boundVars, pointVars, mat, intoRows>>

\* No IntoRows exists.
NoIntoRows == [live |-> FALSE, data |-> <<>>, columns |-> 0, out |-> <<>>, ret |-> "unset"]

\* Matrix::into_rows: IntoRows { data, columns }.
IntoRows(m) ==
    [live |-> TRUE, data |-> m.data, columns |-> m.columns, out |-> <<>>, ret |-> "unset"]

\* Matrix::into_cols: self.transpose().into_rows().
IntoCols(m) == IntoRows(Transpose(m))

\* IntoRows::next that returns the tail split off and keeps the head.
IntoRowsNextStep_NoSwap(it) ==
    IF it.data = <<>> THEN [it EXCEPT !.ret = "None"]
    ELSE IF it.columns > Len(it.data) THEN [it EXCEPT !.ret = "panic"]
    ELSE [it EXCEPT !.data = SubSeq(it.data, 1, it.columns),
                    !.out = Append(@, SubSeq(it.data, it.columns + 1, Len(it.data))),
                    !.ret = "Some"]

\* IntoRows::next: None on empty data; else split_off(columns) (which panics
\* beyond the length) and the swap: the first columns elements are returned,
\* the rest stay.
IntoRowsNextStep(it) ==
    IF it.data = <<>> THEN [it EXCEPT !.ret = "None"]
    ELSE IF it.columns > Len(it.data) THEN [it EXCEPT !.ret = "panic"]
    ELSE [it EXCEPT !.data = SubSeq(it.data, it.columns + 1, Len(it.data)),
                    !.out = Append(@, SubSeq(it.data, 1, it.columns)),
                    !.ret = "Some"]

\* mat.into_rows(): the matrix is moved into the iterator.
CallIntoRows ==
    /\ MatLive
    /\ intoRows' = IntoRows(mat)
    /\ mat' = NoMatrix
    /\ matRet' = MatCall("into_rows", "Ok", <<>>, ZeroPt, "a", mat)
    /\ UNCHANGED <<overflowChecks, area, iterVars, containsVars, boundVars, pointVars>>

\* mat.into_cols().
CallIntoCols ==
    /\ MatLive
    /\ intoRows' = IntoCols(mat)
    /\ mat' = NoMatrix
    /\ matRet' = MatCall("into_cols", "Ok", <<>>, ZeroPt, "a", mat)
    /\ UNCHANGED <<overflowChecks, area, iterVars, containsVars, boundVars, pointVars>>

\* A call of IntoRows::next.
IntoRowsNext ==
    /\ intoRows.live
    /\ intoRows.ret # "panic"
    /\ intoRows' = IntoRowsNextStep(intoRows)
    /\ UNCHANGED <<overflowChecks, area, iterVars, containsVars, boundVars, pointVars, mat, matRet>>

(***************************************************************************)
(* Idle values of the parts a specification does not exercise.             *)
(***************************************************************************)
IdleIter ==
    /\ index = 0 /\ end = 0 /\ fwd = <<>> /\ bwd = <<>> /\ iterRet = NoCall

IdleContains == query = ZeroPt /\ containsRet = "unset"

IdleBound == points = [ty |-> "usize", pts |-> <<>>] /\ boundRet = NoBoundCall

IdleArea == area = MkArea("usize", ZeroPt, 0, 0) /\ IdleIter /\ IdleContains

IdleDirection == dir = NoDirection

IdlePoint == pt = [ty |-> "usize", p |-> ZeroPt] /\ ptCall = NoPointCall /\ IdleDirection

IdleMatrix == mat = NoMatrix /\ matRet = NoMatCall /\ intoRows = NoIntoRows

(***************************************************************************)
(* Specifications.                                                         *)
(***************************************************************************)
\* An iterator over an area, driven from both ends.
InitArea ==
    /\ overflowChecks \in BOOLEAN
    /\ \E a \in Areas : IntoIter(a)
    /\ IdleContains
    /\ IdleBound
    /\ IdlePoint
    /\ IdleMatrix

NextArea == Next_ \/ NextBack

SpecArea == InitArea /\ [][NextArea]_vars

\* An area queried with contains.
InitContains ==
    /\ overflowChecks \in BOOLEAN
    /\ area \in Areas
    /\ IdleIter
    /\ IdleContains
    /\ IdleBound
    /\ IdlePoint
    /\ IdleMatrix

NextContains == Contains

SpecContains == InitContains /\ [][NextContains]_vars

\* A collection of points given to bounding_area.
InitBound ==
    /\ overflowChecks \in BOOLEAN
    /\ area = MkArea("usize", ZeroPt, 0, 0)
    /\ IdleIter
    /\ IdleContains
    /\ \E ty \in Types : \E pts \in PointSeqs(ty) : points = [ty |-> ty, pts |-> pts]
    /\ boundRet = NoBoundCall
    /\ IdlePoint
    /\ IdleMatrix

NextBound == CallBoundingArea

SpecBound == InitBound /\ [][NextBound]_vars

\* A point and one call on it: add_signed, neighbours, a comparison or
\* manhattan_distance.
InitPoint ==
    /\ overflowChecks \in BOOLEAN
    /\ IdleArea
    /\ IdleBound
    /\ \E ty \in Types : \E x \in PointCoords(ty), y \in PointCoords(ty) :
          pt = [ty |-> ty, p |-> Pt(x, y)]
    /\ ptCall = NoPointCall
    /\ IdleDirection
    /\ IdleMatrix

NextPoint == CallAddSigned \/ CallNeighbours \/ CallCmp \/ CallManhattanDistance

SpecPoint == InitPoint /\ [][NextPoint]_vars

\* A direction of one of the three types, turned up to MaxTurns times.
InitDirection ==
    /\ overflowChecks \in BOOLEAN
    /\ IdleArea
    /\ IdleBound
    /\ pt = [ty |-> "usize", p |-> ZeroPt]
    /\ ptCall = NoPointCall
    /\ \E family \in Families : \E d \in DirectionsOf(family) :
          dir = [family |-> family, path |-> <<d>>, turns |-> <<>>]
    /\ IdleMatrix

NextDirection == Turn

SpecDirection == InitDirection /\ [][NextDirection]_vars

\* A matrix: built from rows, then transposed, mapped, written to and read,
\* and in the end drained by rows or by columns.
InitMatrix ==
    /\ overflowChecks \in BOOLEAN
    /\ IdleArea
    /\ IdleBound
    /\ IdlePoint
    /\ IdleMatrix

NextMatrix ==
    \/ CallTryFromIter
    \/ CallTranspose
    \/ CallMap
    \/ CallIterMut
    \/ CallIndexMut
    \/ CallGet
    \/ CallIndex
    \/ CallIterRows
    \/ CallIntoRows
    \/ CallIntoCols
    \/ IntoRowsNext

SpecMatrix == InitMatrix /\ [][NextMatrix]_vars

(***************************************************************************)
(* Properties of Area iteration.                                           *)
(***************************************************************************)
\* The k-th point (k from 0) of the area in row-major order, as a pair of
\* mathematical integers.
RowMajorPoint(a, k) ==
    Pt(a.position.x + (k % a.dimensions[1]), a.position.y + (k \div a.dimensions[1]))

\* The area is empty, or the offsets (w-1, h-1) convert to T and the last
\* point position + (w-1, h-1) is representable in T.
AreaFits(a) ==
    \/ a.dimensions[1] = 0
    \/ a.dimensions[2] = 0
    \/ /\ InRange(a.ty, a.dimensions[1] - 1)
       /\ InRange(a.ty, a.dimensions[2] - 1)
       /\ InRange(a.ty, a.position.x + a.dimensions[1] - 1)
       /\ InRange(a.ty, a.position.y + a.dimensions[2] - 1)

Distinct(s) == \A i, j \in 1..Len(s) : i # j => s[i] # s[j]

\* fwd is the row-major sequence from its start, ascending.
FwdIsRowMajorPrefix ==
    /\ Len(fwd) <= SurfaceArea(area)
    /\ \A j \in 1..Len(fwd) : fwd[j] = RowMajorPoint(area, j - 1)

\* bwd is the row-major sequence from its end, descending.
BwdIsRowMajorSuffix ==
    /\ Len(bwd) <= SurfaceArea(area)
    /\ \A j \in 1..Len(bwd) : bwd[j] = RowMajorPoint(area, SurfaceArea(area) - j)

\* What C1 says of the current state, for the area at hand.
ForwardAndReverseRowMajor ==
    /\ iterRet.ret.kind # "panic"
    /\ bwd = <<>> =>
          /\ FwdIsRowMajorPrefix
          /\ Distinct(fwd)
          /\ iterRet.ret.kind = "None" => Len(fwd) = SurfaceArea(area)
    /\ fwd = <<>> =>
          /\ BwdIsRowMajorSuffix
          /\ Distinct(bwd)
          /\ iterRet.ret.kind = "None" => Len(bwd) = SurfaceArea(area)

InterleavedNoOverlapNoSkip ==
    /\ iterRet.ret.kind # "panic"
    /\ index <= end
    /\ FwdIsRowMajorPrefix
    /\ BwdIsRowMajorSuffix
    /\ Len(fwd) + Len(bwd) <= SurfaceArea(area)
    /\ Distinct(fwd \o bwd)
    /\ iterRet.ret.kind = "None" => Len(fwd) + Len(bwd) = SurfaceArea(area)
    /\ Len(fwd) + Len(bwd) = SurfaceArea(area) =>
          /\ IterNextStep(area, index, end, overflowChecks).ret = None
          /\ IterNextBackStep(area, index, end, overflowChecks).ret = None
    /\ Len(fwd) + Len(bwd) < SurfaceArea(area) =>
          /\ IterNextStep(area, index, end, overflowChecks).ret
                = Some(RowMajorPoint(area, Len(fwd)))
          /\ IterNextBackStep(area, index, end, overflowChecks).ret
                = Some(RowMajorPoint(area, SurfaceArea(area) - Len(bwd) - 1))

IterYielded == IterCollect(area, 0, SurfaceArea(area), overflowChecks, <<>>)

\* C8 as stated, on the areas whose iteration is well defined (AreaFits):
\* a.contains(p) is true if and only if p is one of the points yielded by
\* a.iter().
C8_ContainsIffIterated ==
    (containsRet # "unset" /\ AreaFits(area)) =>
        ((containsRet = "true") <=>
            (\E j \in 1..Len(IterYielded.yielded) : IterYielded.yielded[j] = query))

\* C9 as stated: for every area and every query point contains returns a
\* boolean (it never panics), and it returns false whenever the query point
\* cannot be converted exactly into T.
C9_ContainsNeverPanics ==
    containsRet # "unset" =>
        /\ containsRet \in {"true", "false"}
        /\ PointCast(query, area.ty).kind = "None" => containsRet = "false"

SeqMin(f, n) == CHOOSE m \in {f[i] : i \in 1..n} : \A i \in 1..n : m <= f[i]

SeqMax(f, n) == CHOOSE m \in {f[i] : i \in 1..n} : \A i \in 1..n : m >= f[i]

\* C10 as stated: for a non-empty collection S, bounding_area(S) returns,
\* without overflow or panic, the area at (min x, min y) with dimensions
\* (max x - min x + 1, max y - min y + 1), which contains every point of S;
\* for an empty collection, the area with dimensions (0, 0) at the origin.
C10_BoundingAreaIsMinMax ==
    boundRet.kind # "unset" =>
        LET n == Len(points.pts)
            xs == [i \in 1..n |-> points.pts[i].x]
            ys == [i \in 1..n |-> points.pts[i].y]
        IN  IF n = 0
            THEN boundRet = [kind |-> "Some", area |-> MkArea(points.ty, ZeroPt, 0, 0)]
            ELSE /\ boundRet.kind = "Some"
                 /\ boundRet.area.position = Pt(SeqMin(xs, n), SeqMin(ys, n))
                 /\ boundRet.area.dimensions =
                       <<SeqMax(xs, n) - SeqMin(xs, n) + 1, SeqMax(ys, n) - SeqMin(ys, n) + 1>>
                 /\ \A i \in 1..n :
                       /\ boundRet.area.position.x <= xs[i]
                       /\ xs[i] < boundRet.area.position.x + boundRet.area.dimensions[1]
                       /\ boundRet.area.position.y <= ys[i]
                       /\ ys[i] < boundRet.area.position.y + boundRet.area.dimensions[2]

(***************************************************************************)
(* Properties of Point::neighbours and Point::add_signed.                  *)
(***************************************************************************)
\* The displacement of each direction on the grid (y grows downward),
\* in the declared order of each family.
GridSteps(family) ==
    CASE family = "Cardinal" -> <<Pt(0, -1), Pt(1, 0), Pt(0, 1), Pt(-1, 0)>>
      [] family = "Ordinal" -> <<Pt(1, -1), Pt(1, 1), Pt(-1, 1), Pt(-1, -1)>>
      [] family = "Compass" -> <<Pt(0, -1), Pt(1, -1), Pt(1, 0), Pt(1, 1),
                                 Pt(0, 1), Pt(-1, 1), Pt(-1, 0), Pt(-1, -1)>>

\* The points p + step, for the steps that keep both coordinates in T's
\* range, in the order of the steps.
InRangeNeighbours(ty, p, steps) ==
    LET inside == SelectSeq(steps, LAMBDA d : InRange(ty, p.x + d.x) /\ InRange(ty, p.y + d.y))
    IN  [i \in 1..Len(inside) |-> Pt(p.x + inside[i].x, p.y + inside[i].y)]

\* C6: p.neighbours::<D>() yields exactly the points p + vector(d), for the
\* d of D::all() that keep both coordinates inside T's range, in the order of
\* D::all(), and as many as there are d with add_signed(vector(d)) = Some;
\* an unsigned (0,0) with Cardinal yields (1,0) then (0,1).
C6_NeighboursInRangeInOrder ==
    ptCall.op = "neighbours" =>
        /\ ptCall.list = InRangeNeighbours(pt.ty, pt.p, GridSteps(ptCall.family))
        /\ Len(ptCall.list) =
              Cardinality({i \in 1..Len(GridSteps(ptCall.family)) :
                  AddSigned(pt.ty, pt.p, GridSteps(ptCall.family)[i]).kind = "Some"})
        /\ (pt.ty # "i" /\ pt.p = ZeroPt /\ ptCall.family = "Cardinal") =>
              ptCall.list = <<Pt(1, 0), Pt(0, 1)>>

\* C6 witness: a point on the upper edge of T's range, asked for its
\* Compass neighbours, lost some of them and kept others.
C6_Witness ==
    /\ ptCall.op = "neighbours"
    /\ ptCall.family = "Compass"
    /\ pt.p.x = Hi(pt.ty)
    /\ Len(ptCall.list) > 0
    /\ Len(ptCall.list) < Len(CompassAll)

\* C7: add_signed returns Some of the exact sums when both are representable
\* in T and None when either is not; it never wraps, and never returns a
\* point with only one component updated.
C7_AddSignedExactOrNone ==
    ptCall.op = "add_signed" =>
        LET sx == pt.p.x + ptCall.delta.x
            sy == pt.p.y + ptCall.delta.y
        IN  IF InRange(pt.ty, sx) /\ InRange(pt.ty, sy)
            THEN ptCall.ret = Some(Pt(sx, sy))
            ELSE ptCall.ret = None

\* C7 witness: the x sum is representable, the y sum is not, and the call
\* returned None.
C7_Witness ==
    /\ ptCall.op = "add_signed"
    /\ ptCall.delta.x # 0
    /\ InRange(pt.ty, pt.p.x + ptCall.delta.x)
    /\ ~InRange(pt.ty, pt.p.y + ptCall.delta.y)
    /\ ptCall.ret = None

(***************************************************************************)
(* Properties of Matrix.                                                   *)
(***************************************************************************)
RECURSIVE Concat(_)
Concat(rows) == IF rows = <<>> THEN <<>> ELSE Head(rows) \o Concat(Tail(rows))

SameLengths(rows) == \A i, j \in 1..Len(rows) : Len(rows[i]) = Len(rows[j])

\* C3: construction from rows succeeds exactly when all rows have the same
\* length; then columns is the first row's length (0 for no rows) and data is
\* the rows concatenated in order; otherwise the result is Err(VariableRows)
\* and no Matrix value is produced.
C3_ConstructionIffEqualRows ==
    matRet.op = "try_from_iter" =>
        IF SameLengths(matRet.rows)
        THEN /\ matRet.ret = "Ok"
             /\ mat.built
             /\ mat.columns = (IF matRet.rows = <<>> THEN 0 ELSE Len(matRet.rows[1]))
             /\ mat.data = Concat(matRet.rows)
        ELSE /\ matRet.ret = "VariableRows"
             /\ mat = NoMatrix

\* C3 witness: rows whose first two agree and whose last differs were
\* rejected, and no matrix exists.
C3_Witness ==
    /\ matRet.op = "try_from_iter"
    /\ Len(matRet.rows) >= 2
    /\ Len(matRet.rows[1]) > 0
    /\ Len(matRet.rows[Len(matRet.rows)]) # Len(matRet.rows[1])
    /\ matRet.ret = "VariableRows"
    /\ ~mat.built

\* C4: every Matrix reachable by construction followed by transpose, map,
\* iter_mut and index_mut has columns = 0 and no data, or data whose length
\* is a multiple of columns; so data.len() = rows() * cols().
C4_ShapeInvariant ==
    mat.built =>
        /\ IF mat.columns = 0 THEN mat.data = <<>> ELSE Len(mat.data) % mat.columns = 0
        /\ Len(mat.data) = Rows(mat) * Cols(mat)

\* C4 witness: a matrix of one row and two columns was transposed into one
\* of two rows and one column.
C4_Witness ==
    /\ mat.built
    /\ matRet.op = "transpose"
    /\ Rows(matRet.before) = 1 /\ Cols(matRet.before) = 2
    /\ Rows(mat) = 2 /\ Cols(mat) = 1

InBounds(m, p) == p.x < Cols(m) /\ p.y < Rows(m)

\* C5 as stated: after m[p] = v for an in-bounds p, m[p] and m.get(p) read v
\* (the cell at linear index y * columns + x) and every other cell is
\* unchanged.
C5_IndexMutWritesIndexedCell ==
    (matRet.op = "index_mut" /\ InBounds(matRet.before, matRet.p)) =>
        /\ matRet.ret = "Ok"
        /\ mat.columns = matRet.before.columns
        /\ Index(mat, matRet.p) = [kind |-> "Some", v |-> matRet.v]
        /\ Get(mat, matRet.p) = [kind |-> "Some", v |-> matRet.v]
        /\ mat.data[matRet.p.y * mat.columns + matRet.p.x + 1] = matRet.v
        /\ \A q \in IndexPoints :
              (InBounds(mat, q) /\ q # matRet.p) => Index(mat, q) = Index(matRet.before, q)

(***************************************************************************)
(* Properties of the iterator's reported length.                           *)
(***************************************************************************)
\* C19 as stated: after any sequence of next() and next_back() calls on an
\* iterator over an Area, len() and both bounds of size_hint() equal the
\* number of points not yet yielded: w*h minus those yielded from either end.
C19_SizeHintIsRemaining ==
    IterLive =>
        LET remaining == SurfaceArea(area) - Len(fwd) - Len(bwd)
        IN  /\ IterLen(area, index) = remaining
            /\ SizeHint(area, index).lower = remaining
            /\ SizeHint(area, index).upper = remaining

(***************************************************************************)
(* Properties of turn.                                                     *)
(***************************************************************************)
\* The number of values of the direction type.
Period(family) == IF family = "Compass" THEN 8 ELSE 4

\* The n turns from position k of the path on were all Clockwise.
ClockwiseRun(k, n) ==
    /\ k + n - 1 <= Len(dir.turns)
    /\ \A j \in k..(k + n - 1) : dir.turns[j] = "Clockwise"

\* C16: turn is a cyclic permutation on each direction type: a turn followed
\* by the opposite turn returns to d; Period-many Clockwise turns (4 for
\* Cardinal and Ordinal, 8 for Compass) return to d and fewer do not; a turn
\* of a Compass Cardinal value is an Ordinal value and vice versa.
C16_TurnIsCyclic ==
    dir.family \in Families =>
        /\ \A k \in 1..(Len(dir.turns) - 1) :
              dir.turns[k] # dir.turns[k + 1] => dir.path[k + 2] = dir.path[k]
        /\ \A k \in 1..Len(dir.turns), n \in 1..Period(dir.family) :
              ClockwiseRun(k, n) =>
                  (dir.path[k + n] = dir.path[k] <=> n = Period(dir.family))
        /\ dir.family = "Compass" =>
              \A k \in 1..Len(dir.turns) : dir.path[k + 1].family # dir.path[k].family
        /\ \A k \in 1..Len(dir.path) : dir.path[k] \in DirectionsOf(dir.family)

\* C16 witness: Compass North was turned Clockwise eight times and is North
\* again.
C16_Witness ==
    /\ dir.family = "Compass"
    /\ dir.path[1] = Card("North")
    /\ Len(dir.turns) = 8
    /\ ClockwiseRun(1, 8)
    /\ dir.path[9] = Card("North")

(***************************************************************************)
(* Properties of Point's ordering and distance.                            *)
(***************************************************************************)
\* a is before b when compared by y first and x second.
YThenXLess(a, b) == a.y < b.y \/ (a.y = b.y /\ a.x < b.x)

\* The third points transitivity is checked against.
ThirdPoints(ty) == {Pt(x, y) : x \in Coords(ty), y \in Coords(ty)}

\* C17: Point's ordering is a strict total order that compares y first and
\* x second: a < b iff a.y < b.y or (a.y = b.y and a.x < b.x); cmp returns
\* Equal iff a = b; partial_cmp is always Some and agrees with cmp; no two
\* points are incomparable; Point(0,1) > Point(1,0).
C17_OrderIsYThenX ==
    ptCall.op = "cmp" =>
        LET a == pt.p
            b == ptCall.other
            c == ptCall.cmp
        IN  /\ c.lt <=> YThenXLess(a, b)
            /\ c.ord = "Less" <=> YThenXLess(a, b)
            /\ c.ord = "Greater" <=> YThenXLess(b, a)
            /\ c.ord = "Equal" <=> a = b
            /\ c.eq <=> a = b
            /\ c.partial = [kind |-> "Some", v |-> c.ord]
            /\ PointCmp(b, a) = (CASE c.ord = "Less" -> "Greater"
                                   [] c.ord = "Greater" -> "Less"
                                   [] c.ord = "Equal" -> "Equal")
            /\ \A r \in ThirdPoints(pt.ty) :
                  (c.ord = "Less" /\ PointCmp(b, r) = "Less") => PointCmp(a, r) = "Less"
            /\ (a = Pt(0, 1) /\ b = Pt(1, 0)) => c.ord = "Greater"

\* C17 witness: Point(0,1) was compared with Point(1,0) and is Greater, though
\* its x is the smaller.
C17_Witness ==
    /\ ptCall.op = "cmp"
    /\ pt.p = Pt(0, 1)
    /\ ptCall.other = Pt(1, 0)
    /\ ptCall.cmp.ord = "Greater"
    /\ ~ptCall.cmp.lt

\* |a - b| over the mathematical integers.
AbsDiff(a, b) == IF a < b THEN b - a ELSE a - b

\* C18 as stated: for all points a, b of a bounded integer type T whose true
\* Manhattan distance |a.x - b.x| + |a.y - b.y| is representable in T,
\* a.manhattan_distance(b) returns exactly that value, with no intermediate
\* overflow; so it is symmetric and the distance of a to a is 0.
C18_ManhattanDistanceExact ==
    ptCall.op = "manhattan_distance" =>
        LET a == pt.p
            b == ptCall.other
            true == AbsDiff(a.x, b.x) + AbsDiff(a.y, b.y)
        IN  InRange(pt.ty, true) =>
                /\ ptCall.dist = Some(true)
                /\ ManhattanDistance(pt.ty, b, a, overflowChecks) = ptCall.dist
                /\ a = b => ptCall.dist = Some(0)

(***************************************************************************)
(* Properties of Matrix reads, transpose, map and draining.                *)
(***************************************************************************)
\* The points of matrix m.
PointsOf(m) == {q \in IndexPoints : InBounds(m, q)}

\* The element of m at column x of row y.
Cell(m, x, y) == m.data[y * Cols(m) + x + 1]

\* C11: m.transpose() has rows() = m.cols() and cols() = m.rows(), its
\* element at Point{x,y} is m's element at Point{y,x} for every in-range
\* x, y, and transposing it again yields a matrix equal to m.
C11_TransposeSwapsAxes ==
    matRet.op = "transpose" =>
        LET m == matRet.before
        IN  /\ mat.built
            /\ Rows(mat) = Cols(m)
            /\ Cols(mat) = Rows(m)
            /\ \A q \in PointsOf(mat) :
                  /\ InBounds(m, Pt(q.y, q.x))
                  /\ Index(mat, q) = Index(m, Pt(q.y, q.x))
                  /\ Index(mat, q) = [kind |-> "Some", v |-> Cell(m, q.y, q.x)]
            /\ Transpose(mat) = m

\* C11 witness: the matrix of rows (a, b), (a, a) was transposed into that of
\* rows (a, a), (b, a).
C11_Witness ==
    /\ matRet.op = "transpose"
    /\ matRet.before = MkMatrix(<<"a", "b", "a", "a">>, 2)
    /\ mat = MkMatrix(<<"a", "a", "b", "a">>, 2)

\* C12: get(Point{x,y}) returns Some of the element at linear index
\* y * columns + x exactly when x < cols() and y < rows(), and None
\* otherwise; it never panics, a matrix of zero columns included.
C12_GetIsBoundsChecked ==
    matRet.op = "get" =>
        LET m == matRet.before
            q == matRet.p
        IN  /\ matRet.ret # "panic"
            /\ matRet.ret = "Some" <=> (q.x < Cols(m) /\ q.y < Rows(m))
            /\ matRet.ret # "Some" => matRet.ret = "None"
            /\ matRet.ret = "Some" => matRet.v = m.data[q.y * m.columns + q.x + 1]
            /\ m.columns = 0 => matRet.ret = "None"
            /\ mat = m

\* C12 witness: on a matrix of one row and two columns, get(Point{1,0})
\* returned the second element of the row.
C12_Witness ==
    /\ matRet.op = "get"
    /\ Rows(matRet.before) = 1 /\ Cols(matRet.before) = 2
    /\ matRet.before.data = <<"a", "b">>
    /\ matRet.p = Pt(1, 0)
    /\ matRet.ret = "Some"
    /\ matRet.v = "b"

\* C13 as stated: m[p], through Index or IndexMut, with x >= cols() or
\* y >= rows() panics; it never gives a reference to an in-bounds cell.
C13_IndexOutOfBoundsPanics ==
    (matRet.op \in {"index", "index_mut"} /\ ~InBounds(matRet.before, matRet.p)) =>
        matRet.ret = "panic"

\* C14: for a matrix m of at least one row and one column, m.map(f) calls f
\* once per cell, in row-major order, with (Point{x,y}, &m[Point{x,y}]), x
\* the column and y the row; the result has m's columns and rows and holds
\* at each point f's result for that point.
C14_MapVisitsCellsRowMajor ==
    (matRet.op = "map" /\ Rows(matRet.before) >= 1 /\ Cols(matRet.before) >= 1) =>
        LET m == matRet.before
            f == matRet.v
            calls == matRet.log
        IN  /\ matRet.ret = "Ok"
            /\ Len(calls) = Rows(m) * Cols(m)
            /\ \A k \in 1..Len(calls) :
                  /\ calls[k].p = Pt((k - 1) % Cols(m), (k - 1) \div Cols(m))
                  /\ InBounds(m, calls[k].p)
                  /\ Index(m, calls[k].p) = [kind |-> "Some", v |-> calls[k].v]
            /\ Cols(mat) = Cols(m)
            /\ Rows(mat) = Rows(m)
            /\ \A q \in PointsOf(m) :
                  Index(mat, q) = [kind |-> "Some", v |-> Apply(f, q, Cell(m, q.x, q.y))]

\* C14 witness: the matrix of the one row (a, a) was mapped with checker, f
\* was called for (0,0) and then (1,0), and the result is (a, b).
C14_Witness ==
    /\ matRet.op = "map"
    /\ matRet.v = "checker"
    /\ matRet.before = MkMatrix(<<"a", "a">>, 2)
    /\ Len(matRet.log) = 2
    /\ matRet.log[2].p = Pt(1, 0)
    /\ mat = MkMatrix(<<"a", "b">>, 2)

\* Row i (from 1) of m, left to right, and column j (from 1), top to bottom.
RowOf(m, i) == [x \in 1..Cols(m) |-> Cell(m, x - 1, i - 1)]

ColOf(m, j) == [y \in 1..Rows(m) |-> Cell(m, j - 1, y - 1)]

\* C15: m.into_rows() yields exactly rows() vectors of length cols(), the
\* i-th being row i of m, and then None forever, every element once;
\* m.into_cols() yields in the same way cols() vectors of length rows(),
\* the j-th being column j of m.
C15_IntoRowsDrainsInOrder ==
    intoRows.live =>
        LET m == matRet.before
            out == intoRows.out
            byRows == matRet.op = "into_rows"
            total == IF byRows THEN Rows(m) ELSE Cols(m)
        IN  /\ matRet.op \in {"into_rows", "into_cols"}
            /\ intoRows.ret # "panic"
            /\ Len(out) <= total
            /\ \A k \in 1..Len(out) :
                  out[k] = IF byRows THEN RowOf(m, k) ELSE ColOf(m, k)
            /\ intoRows.ret = "None" => Len(out) = total
            /\ intoRows.ret = "Some" => Len(out) >= 1
            /\ Len(out) < total => IntoRowsNextStep(intoRows).ret = "Some"
            /\ Len(out) = total => IntoRowsNextStep(intoRows) = [intoRows EXCEPT !.ret = "None"]
            /\ Len(Concat(out)) + Len(intoRows.data) = Len(m.data)

\* C15 witness: the matrix of rows (a, b), (a, a) was drained by columns:
\* (a, a), then (b, a), then None.
C15_Witness ==
    /\ intoRows.live
    /\ matRet.op = "into_cols"
    /\ matRet.before = MkMatrix(<<"a", "b", "a", "a">>, 2)
    /\ intoRows.out = <<(<<"a", "a">>), (<<"b", "a">>)>>
    /\ intoRows.ret = "None"

\* C20 as stated: on a Matrix of zero columns iter_rows() yields no rows and
\* map(f) returns an empty matrix without calling f; neither panics.
C20_ZeroColumnsUsable ==
    (matRet.op \in {"iter_rows", "map"} /\ matRet.before.built /\ Cols(matRet.before) = 0) =>
        /\ matRet.ret = "Ok"
        /\ matRet.log = <<>>
        /\ matRet.op = "map" => mat = MkMatrix(<<>>, 0)

=============================================================================
